---- MODULE Spec2Model ----
(***************************************************************************)
(* A model of tgzr.package_management.plugin_manager: the PluginManager    *)
(* resolution engine, its entry-point source and its callers.              *)
(*                                                                         *)
(* The engine's methods are modelled statement by statement, one action    *)
(* per statement, each caller thread with its own program position, so     *)
(* that both a single caller (Spec) and two callers of the same engine     *)
(* (SpecConc) can be checked.  An exception that leaves a method is an      *)
(* outcome of the call (ret[t].status = "raised"), as in the code.         *)
(***************************************************************************)
EXTENDS Naturals, Sequences, FiniteSets

(***************************************************************************)
(* Bounds of the model.                                                    *)
(***************************************************************************)
\* The most descriptors the entry-point source holds.
MaxEps == 2
\* The interpreter's stack limit, in frames of _resolve_plugins: the code
\* itself has no depth check (plugin_manager.py:121-131).
RecursionLimit == 4

(***************************************************************************)
(* The values an entry point can refer to.  ManagedPluginType is T.        *)
(***************************************************************************)
\* Instances of the managed plugin type that entry points refer to.
PluginInstances == {"p1", "p2"}
\* Subclasses of the managed plugin type.
PluginClasses == {"Cls"}
\* Zero-argument callables that are neither.
Callables == {"f_p1", "f_list", "f_f", "f_self", "f_raise"}
\* Tuples and lists.
Collections == {"list12", "list_num"}
\* Values of no accepted shape (a bare number).
Others == {"num"}
Values == PluginInstances \cup PluginClasses \cup Callables \cup Collections \cup Others
\* What a descriptor does when loaded: it yields a value, or load() raises.
Descriptors == Values \cup {"load_fails"}
\* The descriptors of the two-caller specification.
ConcDescriptors == {"p1", "num", "load_fails"}

\* Plugin(ep): what instantiating a plugin class yields, a fresh instance.
Plugin(PluginType) == "new_" \o PluginType

\* isinstance(loaded, ManagedPluginType)
isinstance(loaded) == loaded \in PluginInstances \cup {Plugin(c) : c \in PluginClasses}

\* inspect.isclass(loaded) and issubclass(loaded, ManagedPluginType)
issubclass(loaded) == loaded \in PluginClasses

\* callable(loaded), for a value that is neither of the above
callable(loaded) == loaded \in Callables

\* isinstance(loaded, (tuple, list, set))
iscollection(loaded) == loaded \in Collections

\* The elements of a tuple or list, in its order.
Elements(loaded) ==
    CASE loaded = "list12" -> <<"p1", "p2">>
      [] loaded = "list_num" -> <<"p1", "num">>
      [] OTHER -> <<>>

\* loaded(): whether the call raises, and what it returns otherwise.
CallRaises(loaded) == loaded = "f_raise"

CallResult(loaded) ==
    CASE loaded = "f_p1" -> "p1"
      [] loaded = "f_list" -> "list12"
      [] loaded = "f_f" -> "f_p1"
      [] loaded = "f_self" -> "f_self"
      [] OTHER -> "num"

\* The more specific plugin types find_plugins is asked for: "A" is the type
\* of p1, "B" a type no plugin has.
PluginTypes == {"A", "B"}

\* isinstance(plugin, PluginType) of find_plugins
isinstanceOf(plugin, PluginType) == PluginType = "A" /\ plugin = "p1"

\* The class of a plugin instance: p1 is an A, p2 a P2, and the instance of
\* a plugin class is of that class.
ClassOf(plugin) ==
    CASE plugin = "p1" -> "A"
      [] plugin = "p2" -> "P2"
      [] plugin = Plugin("Cls") -> "Cls"
      [] OTHER -> "int"

\* Plugin.plugin_name: f"{cls.__module__}.{cls.__name__}"
plugin_name(plugin) == "m." \o ClassOf(plugin)

\* The names get_plugin is asked for.
PluginNames == {"m.A", "missing"}

\* PluginManager._instantiate_plugin_type
_instantiate_plugin_type(PluginType) == Plugin(PluginType)

\* What _resolve_plugins yields: the plugins, or the exception that leaves it;
\* calls counts the invocations of callables it made.
Resolved(plugins, calls) == [err |-> "none", plugins |-> plugins, calls |-> calls]
Raised(err, calls) == [err |-> err, plugins |-> <<>>, calls |-> calls]

\* PluginManager._resolve_plugins, in stack frame number depth.
RECURSIVE _resolve_plugins(_, _)
_resolve_plugins(loaded, depth) ==
    IF depth > RecursionLimit THEN Raised("RecursionError", 0)
    ELSE IF isinstance(loaded) THEN Resolved(<<loaded>>, 0)
    ELSE IF issubclass(loaded) THEN Resolved(<<_instantiate_plugin_type(loaded)>>, 0)
    ELSE IF callable(loaded) THEN
        IF CallRaises(loaded) THEN Raised("ValueError", 1)
        ELSE LET r == _resolve_plugins(CallResult(loaded), depth + 1)
             IN  [r EXCEPT !.calls = @ + 1]
    ELSE IF iscollection(loaded) THEN Resolved(Elements(loaded), 0)
    ELSE Raised("ValueError", 0)

(***************************************************************************)
(* The state.                                                              *)
(***************************************************************************)
Threads == {1, 2}
MainThread == 1

VARIABLES
    source,            \* importlib_metadata.entry_points(group=EP_GROUP), in its order
    _needs_loading,    \* PluginManager._needs_loading
    _loaded,           \* PluginManager._loaded: the one list object, mutated in place
    _broken,           \* PluginManager._broken
    generation,        \* the number of the last load pass started, modulo 2
    completed,         \* what _loaded held when the last load pass ran to its end
    pc,                \* pc[t]: where caller t is
    call,              \* call[t]: the method t called last and its arguments
    all_entry_points,  \* all_entry_points[t]: the local of _load_plugins
    ep_index,          \* ep_index[t]: the position of "for ep in all_entry_points"
    plugins,           \* plugins[t]: what is left of "for plugin in plugins"
    pass,              \* pass[t]: the generation of t's load pass
    ret,               \* ret[t]: how t's last call ended
    _PLUGIN_MANAGERS,  \* PluginManagerRegistry._PLUGIN_MANAGERS
    constructed,       \* the engines whose __init__ has run
    others_need_loading, \* _needs_loading of the engines other than the one above
    managers           \* the set get_plugin_managers() returned last, in its caller's hands

vars == <<source, _needs_loading, _loaded, _broken, generation, completed, pc, call,
          all_entry_points, ep_index, plugins, pass, ret,
          _PLUGIN_MANAGERS, constructed, others_need_loading, managers>>

engine == <<_needs_loading, _loaded, _broken>>
registry == <<_PLUGIN_MANAGERS, constructed, others_need_loading, managers>>

\* The engines of the process; Engine is the one whose fields are the
\* variables _needs_loading, _loaded and _broken.
Managers == {"M1", "M2", "M3"}
Engine == "M1"

\* A set get_plugin_managers() returned: fresh until its caller changes it.
NoManagers == [fresh |-> FALSE, set |-> {}]

\* PluginManagerRegistry.register with the set replaced, not added to.
register_replaces(plugin_managers, plugin_manager) == {plugin_manager}

\* PluginManagerRegistry.register: cls._PLUGIN_MANAGERS.add(plugin_manager)
register(plugin_managers, plugin_manager) == plugin_managers \cup {plugin_manager}
locals == <<all_entry_points, ep_index, plugins, pass>>

NoCall == [op |-> "none", force_reload |-> FALSE, PluginType |-> "A", raise_not_found |-> TRUE,
           plugin_name |-> "missing"]
\* How a call ended: returned or raised, the exception and the place that raised
\* it, the list returned ("_loaded" and "_broken" are the engine's own lists),
\* and whether the call ran _load_plugins; of get_plugin, the plugin returned,
\* or the plugin names and the errors its ValueError lists.
NoRet == [status |-> "none", exc |-> "none", where |-> "none", ref |-> "none",
          found |-> <<>>, loaded_pass |-> FALSE,
          plugin |-> "none", names |-> <<>>, errors |-> <<>>]

Init ==
    /\ source = <<>>
    /\ _needs_loading = TRUE
    /\ _loaded = <<>>
    /\ _broken = <<>>
    /\ generation = 0
    /\ completed = <<>>
    /\ pc = [t \in Threads |-> "idle"]
    /\ call = [t \in Threads |-> NoCall]
    /\ all_entry_points = [t \in Threads |-> <<>>]
    /\ ep_index = [t \in Threads |-> 0]
    /\ plugins = [t \in Threads |-> <<>>]
    /\ pass = [t \in Threads |-> 0]
    /\ ret = [t \in Threads |-> NoRet]
    /\ _PLUGIN_MANAGERS = register({}, Engine)
    /\ constructed = {Engine}
    /\ others_need_loading = [m \in Managers \ {Engine} |-> TRUE]
    /\ managers = NoManagers

(***************************************************************************)
(* The entry-point source: an installed package adds a descriptor.         *)
(***************************************************************************)
SourceGains(d) ==
    /\ Len(source) < MaxEps
    /\ source' = Append(source, d)
    /\ UNCHANGED <<registry, engine, generation, completed, pc, call, locals, ret>>

(***************************************************************************)
(* The calls.                                                              *)
(***************************************************************************)
\* The first statement of a method: "if force_reload or self._needs_loading".
Enter(t, c) ==
    /\ pc[t] = "idle"
    /\ call' = [call EXCEPT ![t] = c]
    /\ ret' = [ret EXCEPT ![t] = NoRet]
    /\ all_entry_points' = [all_entry_points EXCEPT ![t] = <<>>]
    /\ ep_index' = [ep_index EXCEPT ![t] = 0]
    /\ plugins' = [plugins EXCEPT ![t] = <<>>]
    /\ UNCHANGED <<registry, source, engine, generation, completed, pass>>

\* get_plugins with the test of self._needs_loading forgotten: it loads only
\* when force_reload is set.
get_plugins_forced_only(t, force_reload) ==
    /\ Enter(t, [NoCall EXCEPT !.op = "get_plugins", !.force_reload = force_reload])
    /\ pc' = [pc EXCEPT ![t] = IF force_reload THEN "entry_points" ELSE "return"]

\* PluginManager.get_plugins, up to its call of _load_plugins or its return
get_plugins(t, force_reload) ==
    /\ Enter(t, [NoCall EXCEPT !.op = "get_plugins", !.force_reload = force_reload])
    /\ pc' = [pc EXCEPT ![t] = IF force_reload \/ _needs_loading
                                THEN "entry_points" ELSE "return"]

\* PluginManager.get_broken_plugins, up to its call of _load_plugins or its return
get_broken_plugins(t, force_reload) ==
    /\ Enter(t, [NoCall EXCEPT !.op = "get_broken_plugins", !.force_reload = force_reload])
    /\ pc' = [pc EXCEPT ![t] = IF force_reload \/ _needs_loading
                                THEN "entry_points" ELSE "return"]

\* PluginManager.find_plugins, up to the get_plugins() of its for loop
find_plugins(t, PluginType, raise_not_found) ==
    /\ Enter(t, [NoCall EXCEPT !.op = "find_plugins", !.PluginType = PluginType,
                               !.raise_not_found = raise_not_found])
    /\ pc' = [pc EXCEPT ![t] = IF _needs_loading THEN "entry_points" ELSE "return"]

\* An exception leaves the method t called.
Raise(t, exc, where) ==
    /\ pc' = [pc EXCEPT ![t] = "idle"]
    /\ ret' = [ret EXCEPT ![t].status = "raised", ![t].exc = exc, ![t].where = where]

(***************************************************************************)
(* PluginManager._load_plugins, statement by statement.                    *)
(***************************************************************************)
\* all_entry_points = importlib_metadata.entry_points(group=self.EP_GROUP)
load_entry_points(t) ==
    /\ pc[t] = "entry_points"
    /\ all_entry_points' = [all_entry_points EXCEPT ![t] = source]
    /\ generation' = 1 - generation
    /\ pass' = [pass EXCEPT ![t] = 1 - generation]
    /\ ret' = [ret EXCEPT ![t].loaded_pass = TRUE]
    /\ pc' = [pc EXCEPT ![t] = "clear_broken"]
    /\ UNCHANGED <<registry, source, engine, completed, call, ep_index, plugins>>

\* self._broken.clear()
load_clear_broken(t) ==
    /\ pc[t] = "clear_broken"
    /\ _broken' = <<>>
    /\ pc' = [pc EXCEPT ![t] = "clear_loaded"]
    /\ UNCHANGED <<registry, source, _needs_loading, _loaded, generation, completed, call, locals, ret>>

\* self._loaded.clear(), and the for loop takes its first entry point
load_clear_loaded(t) ==
    /\ pc[t] = "clear_loaded"
    /\ _loaded' = <<>>
    /\ ep_index' = [ep_index EXCEPT ![t] = 1]
    /\ pc' = [pc EXCEPT ![t] = "for_ep"]
    /\ UNCHANGED <<registry, source, _needs_loading, _broken, generation, completed, call,
                   all_entry_points, plugins, pass, ret>>

\* The entry point the for loop is at.
InLoop(t) == pc[t] = "for_ep" /\ ep_index[t] <= Len(all_entry_points[t])
ep(t) == all_entry_points[t][ep_index[t]]

\* The for loop goes on to its next entry point.
NextEp(t) ==
    /\ ep_index' = [ep_index EXCEPT ![t] = @ + 1]
    /\ pc' = [pc EXCEPT ![t] = "for_ep"]

\* loaded = ep.load() raises: "except Exception as err: raise"; the append
\* to self._broken after the raise is never executed.
load_ep_fails(t) ==
    /\ InLoop(t)
    /\ ep(t) = "load_fails"
    /\ Raise(t, "LoadError", "ep.load")
    /\ UNCHANGED <<registry, source, engine, generation, completed, call, locals>>

\* plugins = self._resolve_plugins(loaded, ep) raises: "except Exception as
\* err: raise"; the append to self._broken after the raise is never executed.
load_resolve_fails(t) ==
    /\ InLoop(t)
    /\ ep(t) # "load_fails"
    /\ _resolve_plugins(ep(t), 1).err # "none"
    /\ Raise(t, _resolve_plugins(ep(t), 1).err, "_resolve_plugins")
    /\ UNCHANGED <<registry, source, engine, generation, completed, call, locals>>

\* plugins = self._resolve_plugins(loaded, ep) returns
load_resolved(t) ==
    /\ InLoop(t)
    /\ ep(t) # "load_fails"
    /\ LET r == _resolve_plugins(ep(t), 1)
       IN  /\ r.err = "none"
           /\ plugins' = [plugins EXCEPT ![t] =
                  [k \in 1..Len(r.plugins) |->
                      [plugin |-> r.plugins[k], ep |-> ep_index[t],
                       gen |-> pass[t], calls |-> r.calls]]]
           /\ pc' = [pc EXCEPT ![t] = "for_plugin"]
    /\ UNCHANGED <<registry, source, engine, generation, completed, call, all_entry_points, ep_index, pass, ret>>

\* for plugin in plugins: self._loaded.append(plugin)
load_append(t) ==
    /\ pc[t] = "for_plugin"
    /\ IF plugins[t] = <<>>
       THEN /\ NextEp(t)
            /\ UNCHANGED <<_loaded, plugins>>
       ELSE /\ _loaded' = Append(_loaded, Head(plugins[t]))
            /\ plugins' = [plugins EXCEPT ![t] = Tail(@)]
            /\ IF Len(plugins[t]) = 1
               THEN NextEp(t)
               ELSE UNCHANGED <<pc, ep_index>>
    /\ UNCHANGED <<registry, source, _needs_loading, _broken, generation, completed, call,
                   all_entry_points, pass, ret>>

\* The for loop is over: self._needs_loading = False
load_done(t) ==
    /\ pc[t] = "for_ep"
    /\ ep_index[t] > Len(all_entry_points[t])
    /\ _needs_loading' = FALSE
    /\ pc' = [pc EXCEPT ![t] = "return"]
    /\ completed' = _loaded
    /\ UNCHANGED <<registry, source, _loaded, _broken, generation, call, locals, ret>>

\* PluginManager._load_plugins
_load_plugins(t) ==
    \/ load_entry_points(t)
    \/ load_clear_broken(t)
    \/ load_clear_loaded(t)
    \/ load_ep_fails(t)
    \/ load_resolve_fails(t)
    \/ load_resolved(t)
    \/ load_append(t)
    \/ load_done(t)

(***************************************************************************)
(* The returns.                                                            *)
(***************************************************************************)
\* "return self._loaded" and "return self._broken": the caller is handed the
\* engine's own list, not a copy.
return_list(t) ==
    /\ pc[t] = "return"
    /\ call[t].op \in {"get_plugins", "get_broken_plugins"}
    /\ ret' = [ret EXCEPT ![t].status = "returned",
                          ![t].ref = IF call[t].op = "get_plugins"
                                     THEN "_loaded" ELSE "_broken"]
    /\ pc' = [pc EXCEPT ![t] = "idle"]
    /\ UNCHANGED <<registry, source, engine, generation, completed, call, locals>>

\* The plugins of a list that are instances of PluginType, in its order.
RECURSIVE Found(_, _)
Found(list, PluginType) ==
    IF list = <<>> THEN <<>>
    ELSE IF isinstanceOf(Head(list).plugin, PluginType)
         THEN <<Head(list)>> \o Found(Tail(list), PluginType)
         ELSE Found(Tail(list), PluginType)

\* What building the message of find_plugins' error raises: p.plugin_name()
\* of an element that is no plugin is an AttributeError.
NotFoundError(list) ==
    IF \E k \in 1..Len(list) : ~isinstance(list[k].plugin)
    THEN "AttributeError" ELSE "ValueError"

\* The rest of find_plugins: the for loop and "if not found: raise
\* ValueError"; raise_not_found is not read.
find_plugins_filter(t) ==
    /\ pc[t] = "return"
    /\ call[t].op = "find_plugins"
    /\ LET found == Found(_loaded, call[t].PluginType)
       IN  IF found = <<>>
           THEN Raise(t, NotFoundError(_loaded), "find_plugins")
           ELSE /\ ret' = [ret EXCEPT ![t].status = "returned",
                                      ![t].ref = "found", ![t].found = found]
                /\ pc' = [pc EXCEPT ![t] = "idle"]
    /\ UNCHANGED <<registry, source, engine, generation, completed, call, locals>>

\* PluginManager.get_plugin, up to the get_plugins() of its for loop
get_plugin(t, name) ==
    /\ Enter(t, [NoCall EXCEPT !.op = "get_plugin", !.plugin_name = name])
    /\ pc' = [pc EXCEPT ![t] = IF _needs_loading THEN "entry_points" ELSE "return"]

\* The for loop of get_plugin over a list: the first plugin of the name, an
\* AttributeError at an element that has no plugin_name(), or nothing.
RECURSIVE Search(_, _)
Search(list, name) ==
    IF list = <<>> THEN [kind |-> "none", plugin |-> "none"]
    ELSE IF ~isinstance(Head(list).plugin)
         THEN [kind |-> "AttributeError", plugin |-> "none"]
    ELSE IF plugin_name(Head(list).plugin) = name
         THEN [kind |-> "found", plugin |-> Head(list).plugin]
    ELSE Search(Tail(list), name)

\* The rest of get_plugin: the for loop, and the ValueError whose message
\* lists the plugin_name() of self.get_plugins() and self._broken.
get_plugin_search(t) ==
    /\ pc[t] = "return"
    /\ call[t].op = "get_plugin"
    /\ LET hit == Search(_loaded, call[t].plugin_name)
       IN  CASE hit.kind = "found" ->
                    /\ ret' = [ret EXCEPT ![t].status = "returned",
                                          ![t].plugin = hit.plugin]
                    /\ pc' = [pc EXCEPT ![t] = "idle"]
             [] hit.kind = "AttributeError" ->
                    Raise(t, "AttributeError", "get_plugin")
             [] OTHER ->
                    /\ ret' = [ret EXCEPT ![t].status = "raised",
                                          ![t].exc = "ValueError",
                                          ![t].where = "get_plugin",
                                          ![t].names = [j \in 1..Len(_loaded) |->
                                                           plugin_name(_loaded[j].plugin)],
                                          ![t].errors = _broken]
                    /\ pc' = [pc EXCEPT ![t] = "idle"]
    /\ UNCHANGED <<registry, source, engine, generation, completed, call, locals>>

(***************************************************************************)
(* The registry of engines.                                                *)
(***************************************************************************)
engine_side == <<source, engine, generation, completed, pc, call, locals, ret>>

\* PluginManager.__init__ of another engine: it registers itself and is
\* unloaded.
__init__(m) ==
    /\ m \notin constructed
    /\ constructed' = constructed \cup {m}
    /\ _PLUGIN_MANAGERS' = register(_PLUGIN_MANAGERS, m)
    /\ others_need_loading' = [others_need_loading EXCEPT ![m] = TRUE]
    /\ UNCHANGED <<managers, engine_side>>

\* PluginManagerRegistry.register(m) called again for an engine that exists.
register_again(m) ==
    /\ m \in constructed
    /\ _PLUGIN_MANAGERS' = register(_PLUGIN_MANAGERS, m)
    /\ UNCHANGED <<constructed, others_need_loading, managers, engine_side>>

\* A load pass of another engine runs to its end.
load_other(m) ==
    /\ m \in constructed \ {Engine}
    /\ others_need_loading[m]
    /\ others_need_loading' = [others_need_loading EXCEPT ![m] = FALSE]
    /\ UNCHANGED <<_PLUGIN_MANAGERS, constructed, managers, engine_side>>

\* PluginManagerRegistry.get_plugin_managers: return cls._PLUGIN_MANAGERS.copy()
get_plugin_managers ==
    /\ managers' = [fresh |-> TRUE, set |-> _PLUGIN_MANAGERS]
    /\ UNCHANGED <<_PLUGIN_MANAGERS, constructed, others_need_loading, engine_side>>

\* The caller adds an engine to the set it was returned, or removes one.
caller_changes_managers(m) ==
    /\ managers.fresh \/ managers.set # {}
    /\ managers' = [fresh |-> FALSE,
                    set |-> IF m \in managers.set
                            THEN managers.set \ {m} ELSE managers.set \cup {m}]
    /\ UNCHANGED <<_PLUGIN_MANAGERS, constructed, others_need_loading, engine_side>>

(***************************************************************************)
(* The specifications.                                                     *)
(***************************************************************************)
\* What caller t does next.
Step(t) ==
    \/ \E force_reload \in BOOLEAN : get_plugins(t, force_reload)
    \/ \E force_reload \in BOOLEAN : get_broken_plugins(t, force_reload)
    \/ \E PluginType \in PluginTypes, raise_not_found \in BOOLEAN :
           find_plugins(t, PluginType, raise_not_found)
    \/ _load_plugins(t)
    \/ return_list(t)
    \/ find_plugins_filter(t)
    \/ \E name \in PluginNames : get_plugin(t, name)
    \/ get_plugin_search(t)

\* One caller of the engine.
Next ==
    \/ \E d \in Descriptors : SourceGains(d)
    \/ Step(MainThread)

Spec == Init /\ [][Next]_vars

\* What one of two callers of get_plugins and get_broken_plugins does next.
StepConc(t) ==
    \/ \E force_reload \in BOOLEAN : get_plugins(t, force_reload)
    \/ \E force_reload \in BOOLEAN : get_broken_plugins(t, force_reload)
    \/ _load_plugins(t)
    \/ return_list(t)

\* Two threads calling the same engine; the code takes no lock, so their
\* statements interleave.
NextConc ==
    \/ \E d \in ConcDescriptors : SourceGains(d)
    \/ \E t \in Threads : StepConc(t)

SpecConc == Init /\ [][NextConc]_vars

\* The registry, with one caller of an engine that loads and reloads.
NextRegistry ==
    \/ \E m \in Managers : __init__(m)
    \/ \E m \in Managers : register_again(m)
    \/ \E m \in Managers : load_other(m)
    \/ get_plugin_managers
    \/ \E m \in Managers : caller_changes_managers(m)
    \/ \E d \in ConcDescriptors : SourceGains(d)
    \/ StepConc(MainThread)

SpecRegistry == Init /\ [][NextRegistry]_vars

(***************************************************************************)
(* What the claims speak of.                                               *)
(***************************************************************************)
\* Caller t's last call is over.
Ended(t) == pc[t] = "idle" /\ ret[t].status # "none"

\* Caller t's last call is over and ran a load pass, to its end or not.
EndedPass(t) == Ended(t) /\ ret[t].loaded_pass

\* The load pass of t's last call ran to its end.
CompletedPass(t) == EndedPass(t) /\ ret[t].where \notin {"ep.load", "_resolve_plugins"}

\* The entries of a plugin list that descriptor number k contributed.
EntriesOf(list, k) == SelectSeq(list, LAMBDA e : e.ep = k)

\* The plugins of a list of entries.
PluginsOf(list) == [j \in 1..Len(list) |-> list[j].plugin]

\* The descriptors the load pass of t's last call enumerated.
Eps(t) == 1..Len(all_entry_points[t])

(***************************************************************************)
(* C1                                                                      *)
(***************************************************************************)
\* C1: for every descriptor whose load() fails, a load pass triggered by
\* get_plugins()/get_broken_plugins() does not itself fail, the plugin list
\* holds no plugin for the descriptor and the broken list holds the pair
\* (descriptor, error).
C1_LoadFailureIsRecorded ==
    \A t \in Threads :
        (EndedPass(t) /\ call[t].op \in {"get_plugins", "get_broken_plugins"}) =>
            \A k \in Eps(t) :
                all_entry_points[t][k] = "load_fails" =>
                    /\ ret[t].status = "returned"
                    /\ EntriesOf(_loaded, k) = <<>>
                    /\ \E b \in 1..Len(_broken) :
                           _broken[b] = [ep |-> k, err |-> "LoadError"]

(***************************************************************************)
(* C2                                                                      *)
(***************************************************************************)
\* C2: for every descriptor whose loaded value has none of the accepted shapes
\* (a bare number), the load pass does not raise, records a resolution error
\* for the descriptor in the broken list and adds no plugin for it.
C2_UnsupportedValueIsRecorded ==
    \A t \in Threads :
        (EndedPass(t) /\ call[t].op \in {"get_plugins", "get_broken_plugins"}) =>
            \A k \in Eps(t) :
                all_entry_points[t][k] \in Others =>
                    /\ ret[t].status = "returned"
                    /\ EntriesOf(_loaded, k) = <<>>
                    /\ \E b \in 1..Len(_broken) :
                           _broken[b] = [ep |-> k, err |-> "ValueError"]

(***************************************************************************)
(* C3                                                                      *)
(***************************************************************************)
\* C3: find_plugins(C, raise_if_empty) with no loaded plugin of type C fails
\* with the not-found error when raise_if_empty is true and returns an empty
\* collection when it is false.  Stated of the calls whose get_plugins()
\* returned, so that the load pass is not what decides it.
C3_FindPluginsHonoursRaiseIfEmpty ==
    \A t \in Threads :
        (/\ Ended(t)
         /\ call[t].op = "find_plugins"
         /\ ret[t].where \notin {"ep.load", "_resolve_plugins"}
         /\ Found(_loaded, call[t].PluginType) = <<>>) =>
            IF call[t].raise_not_found
            THEN /\ ret[t].status = "raised"
                 /\ ret[t].where = "find_plugins"
                 /\ ret[t].exc = "ValueError"
            ELSE ret[t].status = "returned" /\ ret[t].found = <<>>

(***************************************************************************)
(* C4                                                                      *)
(***************************************************************************)
\* C4: in every reachable state every member of the resolved plugin list is
\* an instance of the managed type, whatever the shapes of the loaded values.
C4_LoadedAreInstances ==
    \A j \in 1..Len(_loaded) : isinstance(_loaded[j].plugin)

(***************************************************************************)
(* C5                                                                      *)
(***************************************************************************)
\* No plugin list holds plugins of two load passes.
NoMixedGenerations ==
    \A i, j \in 1..Len(_loaded) : _loaded[i].gen = _loaded[j].gen

\* The source the load pass of t's last call saw holds nothing but descriptors
\* of the kinds given.
SawOnly(t, kinds) == \A k \in Eps(t) : all_entry_points[t][k] \in kinds

\* C5: get_plugins(force_reload=true) returns a list that includes the plugin
\* of every descriptor the source holds by then, a newly gained one included,
\* and no list (the engine's own list is what every caller holds) contains
\* plugins of two load passes.  Stated of the sources whose descriptors are
\* plugin instances or fail to load.
C5_ForcedReloadReturnsNewPlugin ==
    /\ NoMixedGenerations
    /\ \A t \in Threads :
           (/\ Ended(t) /\ call[t].op = "get_plugins" /\ call[t].force_reload
            /\ SawOnly(t, PluginInstances \cup {"load_fails"})) =>
               \A k \in Eps(t) :
                   all_entry_points[t][k] \in PluginInstances =>
                       /\ ret[t].status = "returned"
                       /\ \E j \in 1..Len(_loaded) :
                              /\ _loaded[j].ep = k
                              /\ _loaded[j].plugin = all_entry_points[t][k]

\* C5, of the forced reloads that ran to their end: the list returned holds
\* the plugin of every instance descriptor of the source, in one generation.
C5_OnCompletedPass ==
    /\ NoMixedGenerations
    /\ \A t \in Threads :
           (CompletedPass(t) /\ call[t].op = "get_plugins" /\ call[t].force_reload) =>
               /\ ret[t].status = "returned"
               /\ ret[t].ref = "_loaded"
               /\ \A k \in Eps(t) :
                      all_entry_points[t][k] \in PluginInstances =>
                          \E j \in 1..Len(_loaded) :
                              /\ _loaded[j].ep = k
                              /\ _loaded[j].plugin = all_entry_points[t][k]

(***************************************************************************)
(* C6                                                                      *)
(***************************************************************************)
\* C6: with two threads calling get_plugins()/get_broken_plugins() on one
\* engine, every plugin list a caller has been returned and reads is the
\* complete result of one load pass, never a list being rebuilt.
C6_CallersReadCompleteLists ==
    \A t \in Threads :
        (Ended(t) /\ ret[t].status = "returned" /\ ret[t].ref = "_loaded") =>
            _loaded = completed

\* The statements of _load_plugins.
InLoadPlugins(t) ==
    pc[t] \in {"entry_points", "clear_broken", "clear_loaded", "for_ep", "for_plugin"}

\* C6, the lock itself: no two threads are inside _load_plugins at once.
C6_LoadPassesAreSerialized ==
    \A t, u \in Threads : (InLoadPlugins(t) /\ InLoadPlugins(u)) => t = u

(***************************************************************************)
(* C7                                                                      *)
(***************************************************************************)
\* C7: following a chain of callables stops at a depth limit of the engine
\* with a resolution error (the ValueError of _resolve_plugins); it never
\* runs until the interpreter's stack is exhausted.
C7_ChainStopsWithResolutionError ==
    \A t \in Threads :
        (Ended(t) /\ ret[t].where = "_resolve_plugins") => ret[t].exc = "ValueError"

(***************************************************************************)
(* C8                                                                      *)
(***************************************************************************)
\* C8: get_plugins and get_broken_plugins run a load pass exactly when the
\* engine is unloaded or force_reload is set; a call that runs none returns
\* the engine's cached list and leaves the engine as it is; the entry-point
\* source is read by a load pass alone; and an engine that a completed load
\* pass has marked loaded stays loaded.
C8_LoadsExactlyWhenUnloadedOrForced ==
    [][ /\ \A t \in Threads :
            /\ (/\ pc[t] = "idle" /\ pc'[t] # "idle"
                /\ call'[t].op \in {"get_plugins", "get_broken_plugins"}) =>
                   /\ (pc'[t] = "entry_points") <=>
                          (call'[t].force_reload \/ _needs_loading)
                   /\ pc'[t] \in {"entry_points", "return"}
                   /\ UNCHANGED engine
            /\ (/\ pc[t] = "return" /\ pc'[t] = "idle"
                /\ call[t].op \in {"get_plugins", "get_broken_plugins"}) =>
                   /\ ret'[t].status = "returned"
                   /\ ret'[t].ref = IF call[t].op = "get_plugins"
                                    THEN "_loaded" ELSE "_broken"
                   /\ UNCHANGED engine
            /\ (all_entry_points'[t] # all_entry_points[t]) =>
                   (pc[t] = "entry_points" \/ all_entry_points'[t] = <<>>)
        /\ ~_needs_loading => ~_needs_loading'
      ]_vars

\* A call of get_plugins() without force_reload has returned the cached list
\* without a load pass, although the source has since gained a plugin the
\* list does not hold.
C8_Witness ==
    \E t \in Threads :
        /\ Ended(t)
        /\ call[t].op = "get_plugins"
        /\ ~call[t].force_reload
        /\ ret[t].status = "returned"
        /\ ~ret[t].loaded_pass
        /\ \E k \in 1..Len(source) :
               source[k] \in PluginInstances /\ EntriesOf(_loaded, k) = <<>>

(***************************************************************************)
(* C9                                                                      *)
(***************************************************************************)
\* The plugins of a list stand in the order of their descriptors.
InEnumerationOrder(list) ==
    \A i, j \in 1..Len(list) : i < j => list[i].ep <= list[j].ep

\* C9: after a load pass, for every descriptor whose loaded value is an
\* instance of the managed type the plugin list holds exactly that instance,
\* once, and the plugins stand in the order of their descriptors.  Stated of
\* the sources whose descriptors are plugin instances or fail to load.
C9_InstancesOnceInOrder ==
    \A t \in Threads :
        (EndedPass(t) /\ SawOnly(t, PluginInstances \cup {"load_fails"})) =>
            /\ InEnumerationOrder(_loaded)
            /\ \A k \in Eps(t) :
                   all_entry_points[t][k] \in PluginInstances =>
                       PluginsOf(EntriesOf(_loaded, k)) = <<all_entry_points[t][k]>>

\* C9, of the load passes that ran to their end, whatever the source holds.
C9_OnCompletedPass ==
    \A t \in Threads :
        CompletedPass(t) =>
            /\ InEnumerationOrder(_loaded)
            /\ \A k \in Eps(t) :
                   all_entry_points[t][k] \in PluginInstances =>
                       PluginsOf(EntriesOf(_loaded, k)) = <<all_entry_points[t][k]>>

(***************************************************************************)
(* C10                                                                     *)
(***************************************************************************)
\* C10: after a load pass, a descriptor whose value is a zero-argument
\* callable returning [p1, p2] has been invoked once and has contributed p1
\* then p2 and nothing else.  Stated of the sources whose descriptors are such
\* callables or fail to load.
C10_CallableReturningList ==
    \A t \in Threads :
        (EndedPass(t) /\ SawOnly(t, {"f_list", "load_fails"})) =>
            \A k \in Eps(t) :
                all_entry_points[t][k] = "f_list" =>
                    /\ PluginsOf(EntriesOf(_loaded, k)) = <<"p1", "p2">>
                    /\ \A j \in 1..Len(_loaded) :
                           _loaded[j].ep = k => _loaded[j].calls = 1

\* C10, of the load passes that ran to their end, whatever the source holds.
C10_OnCompletedPass ==
    \A t \in Threads :
        CompletedPass(t) =>
            \A k \in Eps(t) :
                all_entry_points[t][k] = "f_list" =>
                    /\ PluginsOf(EntriesOf(_loaded, k)) = <<"p1", "p2">>
                    /\ \A j \in 1..Len(_loaded) :
                           _loaded[j].ep = k => _loaded[j].calls = 1

(***************************************************************************)
(* C11                                                                     *)
(***************************************************************************)
\* The plugin list holds no plugin of the name.
NoPluginNamed(name) ==
    \A j \in 1..Len(_loaded) :
        isinstance(_loaded[j].plugin) => plugin_name(_loaded[j].plugin) # name

\* The not-found error of get_plugin, listing the name of every plugin of the
\* list and the broken list.
NotFoundOfGetPlugin(t) ==
    /\ ret[t].status = "raised"
    /\ ret[t].where = "get_plugin"
    /\ ret[t].exc = "ValueError"
    /\ ret[t].names = [j \in 1..Len(_loaded) |-> plugin_name(_loaded[j].plugin)]
    /\ ret[t].errors = _broken

\* C11: get_plugin(name) for a name no loaded plugin has fails with the
\* not-found error, whose payload lists the name of every known plugin and
\* the broken descriptors; a plugin it returns has the name asked for.
\* Stated of the sources whose descriptors are plugin instances or fail to load.
C11_GetPluginNotFound ==
    \A t \in Threads :
        (/\ Ended(t) /\ call[t].op = "get_plugin"
         /\ SawOnly(t, PluginInstances \cup {"load_fails"})) =>
            /\ ret[t].status = "returned" =>
                   plugin_name(ret[t].plugin) = call[t].plugin_name
            /\ NoPluginNamed(call[t].plugin_name) =>
                   /\ NotFoundOfGetPlugin(t)
                   /\ \A k \in Eps(t) :
                          all_entry_points[t][k] = "load_fails" =>
                              \E b \in 1..Len(ret[t].errors) : ret[t].errors[b].ep = k

\* C11, of the calls whose get_plugins() returned a list of plugins only.
C11_OnCompletedPass ==
    \A t \in Threads :
        (/\ Ended(t) /\ call[t].op = "get_plugin"
         /\ ret[t].where \notin {"ep.load", "_resolve_plugins"}
         /\ C4_LoadedAreInstances) =>
            /\ ret[t].status = "returned" =>
                   plugin_name(ret[t].plugin) = call[t].plugin_name
            /\ NoPluginNamed(call[t].plugin_name) => NotFoundOfGetPlugin(t)
            /\ ~NoPluginNamed(call[t].plugin_name) => ret[t].status = "returned"

(***************************************************************************)
(* C12                                                                     *)
(***************************************************************************)
\* C12: the registry holds exactly the engines constructed, each once,
\* whether they have loaded or not; no step removes an engine, registering
\* an engine again changes nothing, a load pass does not touch the registry,
\* get_plugin_managers() returns the registry's engines, and what its caller
\* does to the returned set leaves the registry as it is.
C12_RegistryIsAppendOnly ==
    [][ /\ _PLUGIN_MANAGERS \subseteq _PLUGIN_MANAGERS'
        /\ _PLUGIN_MANAGERS' = constructed'
        /\ constructed' = constructed => _PLUGIN_MANAGERS' = _PLUGIN_MANAGERS
        /\ (engine' # engine \/ others_need_loading' # others_need_loading) =>
               _PLUGIN_MANAGERS' = _PLUGIN_MANAGERS
        /\ managers' # managers =>
               /\ _PLUGIN_MANAGERS' = _PLUGIN_MANAGERS
               /\ managers'.fresh => managers'.set = constructed
      ]_vars

\* After the construction of M1 and M2 and of no other engine, of which M1
\* has loaded and M2 has not, get_plugin_managers() has returned {M1, M2}.
C12_Witness ==
    /\ constructed = {"M1", "M2"}
    /\ managers = [fresh |-> TRUE, set |-> {"M1", "M2"}]
    /\ ~_needs_loading
    /\ others_need_loading["M2"]

(***************************************************************************)
(* C13                                                                     *)
(***************************************************************************)
\* C13: whenever the engine is loaded (_needs_loading is false) and no load
\* pass is running, its cached plugin list is what a load pass that ran to
\* its end has left; a forced reload that an exception aborts part-way does
\* not leave its cleared or half-built list to be returned as the cached one.
C13_LoadedStateIsOfACompletedPass ==
    (~_needs_loading /\ \A t \in Threads : ~InLoadPlugins(t)) =>
        _loaded = completed

====
